---- MODULE Spec2Model ----
(***************************************************************************)
(* State-machine model of the two contracts of the repository:            *)
(*   - EscrowVault        (src/contracts/escrow-vault/src/lib.rs)          *)
(*   - StrategyCommitment (src/contracts/strategy-commitment/src/lib.rs)   *)
(*                                                                         *)
(* Each contract entry point is one action.  The statements of a handler   *)
(* are applied to the key-value store in the order the source gives them:  *)
(* a `set` that runs before a `return Err(..)` or a panic has taken effect *)
(* when the handler stops.  The host's authorization check, the token      *)
(* contract and the ledger clock are inputs of the actions.                *)
(*                                                                         *)
(* Integers: balances are i128 and ids are u64 in the source.  Every       *)
(* amount in the model is bounded by the minted supply and every id by     *)
(* MaxLocks / MaxCommits / MaxProofs, so no arithmetic of the model comes  *)
(* near either width.                                                      *)
(***************************************************************************)
EXTENDS Integers, Sequences, FiniteSets, TLC

\* ------------------------------------------------------------------ bounds
MaxSeq     == 2     \* the ledger sequence number runs 0..MaxSeq
MaxLocks   == 2     \* lock entries the vault comes to hold
MaxAmount  == 2     \* largest amount argument; also what A holds of token T
MaxLen     == 1     \* longest strategy, trade_params or salt argument, in bytes
MaxTime    == 1     \* the ledger timestamp runs 0..MaxTime
MaxCommits == 2     \* commitment records the registry comes to hold
MaxProofs  == 2     \* proof records the registry comes to hold
MaxRecords == 3     \* commitment and proof records together

\* ------------------------------------------------------------ value spaces
Addrs      == {"A", "B"}              \* account addresses (owners, recipients)
Vault      == "V"                      \* env.current_contract_address()
Tokens     == {"T", "U"}              \* token contract addresses
Amounts    == 0..MaxAmount             \* amount arguments (0 is not positive)
Seqs       == 0..MaxSeq                \* expires_at arguments
LockIds    == 0..(MaxLocks - 1)        \* lock_id arguments

NoOwner    == "none"                   \* instance storage has no DataKey::Owner
NoCall     == [op |-> "none"]          \* no call is waiting to be observed

\* A persistent-storage map is a function whose domain is the set of keys
\* that have been `set`.
EmptyMap       == [k \in {} |-> 0]
Has(m, k)      == k \in DOMAIN m
GetOr(m, k, d) == IF k \in DOMAIN m THEN m[k] ELSE d
Put(m, k, v)   == [x \in (DOMAIN m) \cup {k} |-> IF x = k THEN v ELSE m[x]]

VARIABLES
    vaultOwner,   \* DataKey::Owner (instance storage) or NoOwner
    balances,     \* DataKey::Balance(owner, token) -> i128
    locks,        \* DataKey::Lock(owner, lock_id)  -> LockEntry
    nextLockId,   \* DataKey::NextLockId(owner)     -> u64
    holdings,     \* the token contracts' ledgers: token -> holder -> amount
    ledgerSeq,    \* env.ledger().sequence()
    last          \* the call that has just run: arguments, outcome, and the
                  \* state it started from; NoCall once its caller has seen it

VARIABLES
    counters,      \* instance storage: DataKey::NextId, DataKey::NextProofId
    commitments,   \* DataKey::Commitment(id)     -> CommitmentRecord
    proofs,        \* DataKey::Proof(id)          -> ProofRecord
    proofByCommit, \* DataKey::ProofByCommit(id)  -> proof_id
    ledgerTime,    \* env.ledger().timestamp()
    rlast          \* the registry call that has just run, as `last`

regVars    == <<counters, commitments, proofs, proofByCommit, ledgerTime, rlast>>
vaultVars  == <<vaultOwner, balances, locks, nextLockId, holdings, ledgerSeq, last>>

\* The vault's stored state and the token ledgers, as one value.
VaultState ==
    [vaultOwner |-> vaultOwner, balances |-> balances, locks |-> locks,
     nextLockId |-> nextLockId, holdings |-> holdings]

\* What last keeps of a vault call: all of a call that succeeded; of a failed
\* one its operation, its owner argument, the lock it named and its outcome
\* (and of a withdraw refused for lack of funds, what it asked for).
VaultOutcome(call) ==
    IF call.result = "Ok" THEN call
    ELSE IF call.op \in {"release", "reclaim"}
    THEN [op |-> call.op, owner |-> call.owner, lock_id |-> call.lock_id,
          result |-> call.result, pre |-> call.pre]
    ELSE IF call.op = "owner"
    THEN [op |-> call.op, result |-> call.result, pre |-> call.pre]
    ELSE IF call.op = "withdraw" /\ call.result = "InsufficientFunds"
    THEN [op |-> call.op, owner |-> call.owner, token |-> call.token,
          amount |-> call.amount, result |-> call.result, pre |-> call.pre]
    ELSE [op |-> call.op, owner |-> call.owner, result |-> call.result,
          pre |-> call.pre]

\* ------------------------------------------------------------------ vault
Initialized == vaultOwner # NoOwner

\* fn balance: persistent().get(&Balance(owner, token)).unwrap_or(0)
Balance(owner, token) == GetOr(balances, <<owner, token>>, 0)

\* fn get_lock
GetLock(owner, lock_id) ==
    IF Has(locks, <<owner, lock_id>>) THEN locks[<<owner, lock_id>>]
    ELSE "LockNotFound"

\* token::Client::transfer of the token contract: it fails when the token
\* contract refuses the transfer (xferOk = FALSE) or the sender holds less
\* than the amount.
CanTransfer(token, from, amount, xferOk) ==
    xferOk /\ holdings[token][from] >= amount

AfterTransfer(token, from, to, amount) ==
    [holdings EXCEPT ![token] =
        [h \in DOMAIN holdings[token] |->
            holdings[token][h]
              - (IF h = from THEN amount ELSE 0)
              + (IF h = to THEN amount ELSE 0)]]

\* What the token admin minted before the vault is used (token_admin.mint in
\* the tests): A holds MaxAmount of T and B one unit; nobody holds U.
Minted(t, h) ==
    IF t = "T" /\ h = "A" THEN MaxAmount
    ELSE IF t = "T" /\ h = "B" THEN 1
    ELSE 0

VaultInit ==
    /\ vaultOwner = NoOwner
    /\ balances = EmptyMap
    /\ locks = EmptyMap
    /\ nextLockId = EmptyMap
    /\ holdings = [t \in Tokens |-> [h \in Addrs \cup {Vault} |-> Minted(t, h)]]
    /\ ledgerSeq = 0
    /\ last = NoCall

\* fn init
InitResult(auth) ==
    IF Initialized THEN "AlreadyInitialized"
    ELSE IF ~auth THEN "AuthFailed"
    ELSE "Ok"

VaultInitCall(owner, auth) ==
    LET res == InitResult(auth) IN
    /\ last = NoCall
    /\ last' = VaultOutcome([op |-> "init", owner |-> owner, auth |-> auth,
                result |-> res, pre |-> VaultState])
    /\ vaultOwner' = IF res = "Ok" THEN owner ELSE vaultOwner
    /\ UNCHANGED <<balances, locks, nextLockId, holdings, ledgerSeq>>

\* Variant of DepositResult without Self::require_init (line 83).
DepositResult_NoInitCheck(owner, token, amount, auth, xferOk) ==
    IF ~auth THEN "AuthFailed"
    ELSE IF amount <= 0 THEN "InvalidAmount"
    ELSE IF ~CanTransfer(token, owner, amount, xferOk) THEN "TransferFailed"
    ELSE "Ok"

\* fn deposit
DepositResult(owner, token, amount, auth, xferOk) ==
    IF ~Initialized THEN "NotInitialized"
    ELSE IF ~auth THEN "AuthFailed"
    ELSE IF amount <= 0 THEN "InvalidAmount"
    ELSE IF ~CanTransfer(token, owner, amount, xferOk) THEN "TransferFailed"
    ELSE "Ok"

\* Variant of Deposit that keeps one balance per owner, whatever the token.
Deposit_OneBalance(owner, token, amount, auth, xferOk) ==
    LET res == DepositResult(owner, token, amount, auth, xferOk) IN
    /\ last = NoCall
    /\ last' = VaultOutcome([op |-> "deposit", owner |-> owner, token |-> token,
                amount |-> amount, auth |-> auth, result |-> res,
                pre |-> VaultState])
    /\ IF res = "Ok"
       THEN /\ holdings' = AfterTransfer(token, owner, Vault, amount)
            /\ balances' = Put(balances, <<owner, "T">>,
                               Balance(owner, "T") + amount)
       ELSE UNCHANGED <<holdings, balances>>
    /\ UNCHANGED <<vaultOwner, locks, nextLockId, ledgerSeq>>

Deposit(owner, token, amount, auth, xferOk) ==
    LET res == DepositResult(owner, token, amount, auth, xferOk) IN
    /\ last = NoCall
    /\ last' = VaultOutcome([op |-> "deposit", owner |-> owner, token |-> token,
                amount |-> amount, auth |-> auth, result |-> res,
                pre |-> VaultState])
    /\ IF res = "Ok"
       THEN /\ holdings' = AfterTransfer(token, owner, Vault, amount)
            /\ balances' = Put(balances, <<owner, token>>,
                               Balance(owner, token) + amount)
       ELSE UNCHANGED <<holdings, balances>>
    /\ UNCHANGED <<vaultOwner, locks, nextLockId, ledgerSeq>>

\* Variant of WithdrawResult that lets each of the owner's Active locks on
\* the token cover one unit of the amount.
WithdrawResult_CountsLocks(owner, token, amount, auth, xferOk) ==
    IF ~Initialized THEN "NotInitialized"
    ELSE IF ~auth THEN "AuthFailed"
    ELSE IF amount <= 0 THEN "InvalidAmount"
    ELSE IF Balance(owner, token)
              + Cardinality({k \in DOMAIN locks :
                               k[1] = owner /\ locks[k].token = token
                                 /\ locks[k].status = "Active"}) < amount
         THEN "InsufficientFunds"
    ELSE IF ~CanTransfer(token, Vault, amount, xferOk) THEN "TransferFailed"
    ELSE "Ok"

\* Variant of WithdrawResult without the balance check of lines 121-123.
WithdrawResult_NoFundsCheck(owner, token, amount, auth, xferOk) ==
    IF ~Initialized THEN "NotInitialized"
    ELSE IF ~auth THEN "AuthFailed"
    ELSE IF amount <= 0 THEN "InvalidAmount"
    ELSE IF ~CanTransfer(token, Vault, amount, xferOk) THEN "TransferFailed"
    ELSE "Ok"

\* fn withdraw
WithdrawResult(owner, token, amount, auth, xferOk) ==
    IF ~Initialized THEN "NotInitialized"
    ELSE IF ~auth THEN "AuthFailed"
    ELSE IF amount <= 0 THEN "InvalidAmount"
    ELSE IF Balance(owner, token) < amount THEN "InsufficientFunds"
    ELSE IF ~CanTransfer(token, Vault, amount, xferOk) THEN "TransferFailed"
    ELSE "Ok"

\* Variant of Withdraw that debits the balance before the transfer is tried,
\* so that a refused transfer leaves the debit behind.
Withdraw_DebitFirst(owner, token, amount, auth, xferOk) ==
    LET res == WithdrawResult(owner, token, amount, auth, xferOk) IN
    /\ last = NoCall
    /\ last' = VaultOutcome([op |-> "withdraw", owner |-> owner, token |-> token,
                amount |-> amount, auth |-> auth, result |-> res,
                pre |-> VaultState])
    /\ IF res = "Ok"
       THEN holdings' = AfterTransfer(token, Vault, owner, amount)
       ELSE UNCHANGED holdings
    /\ IF res \in {"Ok", "TransferFailed"}
       THEN balances' = Put(balances, <<owner, token>>,
                            Balance(owner, token) - amount)
       ELSE UNCHANGED balances
    /\ UNCHANGED <<vaultOwner, locks, nextLockId, ledgerSeq>>

Withdraw(owner, token, amount, auth, xferOk) ==
    LET res == WithdrawResult(owner, token, amount, auth, xferOk) IN
    /\ last = NoCall
    /\ last' = VaultOutcome([op |-> "withdraw", owner |-> owner, token |-> token,
                amount |-> amount, auth |-> auth, result |-> res,
                pre |-> VaultState])
    /\ IF res = "Ok"
       THEN /\ holdings' = AfterTransfer(token, Vault, owner, amount)
            /\ balances' = Put(balances, <<owner, token>>,
                               Balance(owner, token) - amount)
       ELSE UNCHANGED <<holdings, balances>>
    /\ UNCHANGED <<vaultOwner, locks, nextLockId, ledgerSeq>>

\* Variant of LockResult without the expiry check of lines 155-157.
LockResult_NoExpiryCheck(owner, token, amount, expires_at, auth) ==
    IF ~Initialized THEN "NotInitialized"
    ELSE IF ~auth THEN "AuthFailed"
    ELSE IF amount <= 0 THEN "InvalidAmount"
    ELSE IF Balance(owner, token) < amount THEN "InsufficientFunds"
    ELSE "Ok"

\* fn lock
LockResult(owner, token, amount, expires_at, auth) ==
    IF ~Initialized THEN "NotInitialized"
    ELSE IF ~auth THEN "AuthFailed"
    ELSE IF amount <= 0 THEN "InvalidAmount"
    ELSE IF expires_at <= ledgerSeq THEN "InvalidExpiry"
    ELSE IF Balance(owner, token) < amount THEN "InsufficientFunds"
    ELSE "Ok"

\* Variant of Lock that draws every owner's lock_id from one shared counter.
Lock_SharedCounter(owner, token, amount, expires_at, auth) ==
    LET res     == LockResult(owner, token, amount, expires_at, auth)
        lock_id == GetOr(nextLockId, "all", 0)
        entry   == [token |-> token, amount |-> amount,
                    expires_at |-> expires_at, status |-> "Active"]
    IN
    /\ last = NoCall
    /\ res = "Ok" => Cardinality(DOMAIN locks) < MaxLocks
    /\ last' = VaultOutcome([op |-> "lock", owner |-> owner, token |-> token,
                amount |-> amount, expires_at |-> expires_at, auth |-> auth,
                lock_id |-> IF res = "Ok" THEN lock_id ELSE -1,
                result |-> res, pre |-> VaultState])
    /\ IF res = "Ok"
       THEN /\ balances' = Put(balances, <<owner, token>>,
                               Balance(owner, token) - amount)
            /\ nextLockId' = Put(nextLockId, "all", lock_id + 1)
            /\ locks' = Put(locks, <<owner, lock_id>>, entry)
       ELSE UNCHANGED <<balances, nextLockId, locks>>
    /\ UNCHANGED <<vaultOwner, holdings, ledgerSeq>>

Lock(owner, token, amount, expires_at, auth) ==
    LET res     == LockResult(owner, token, amount, expires_at, auth)
        lock_id == GetOr(nextLockId, owner, 0)
        entry   == [token |-> token, amount |-> amount,
                    expires_at |-> expires_at, status |-> "Active"]
    IN
    /\ last = NoCall
    /\ res = "Ok" => Cardinality(DOMAIN locks) < MaxLocks
    /\ last' = VaultOutcome([op |-> "lock", owner |-> owner, token |-> token,
                amount |-> amount, expires_at |-> expires_at, auth |-> auth,
                lock_id |-> IF res = "Ok" THEN lock_id ELSE -1,
                result |-> res, pre |-> VaultState])
    /\ IF res = "Ok"
       THEN /\ balances' = Put(balances, <<owner, token>>,
                               Balance(owner, token) - amount)
            /\ nextLockId' = Put(nextLockId, owner, lock_id + 1)
            /\ locks' = Put(locks, <<owner, lock_id>>, entry)
       ELSE UNCHANGED <<balances, nextLockId, locks>>
    /\ UNCHANGED <<vaultOwner, holdings, ledgerSeq>>

\* Variant of ReleaseResult without the status check of lines 210-212.
ReleaseResult_NoActiveCheck(owner, lock_id, auth, xferOk) ==
    LET key == <<owner, lock_id>> IN
    IF ~Initialized THEN "NotInitialized"
    ELSE IF ~auth THEN "AuthFailed"
    ELSE IF ~Has(locks, key) THEN "LockNotFound"
    ELSE IF ledgerSeq > locks[key].expires_at THEN "LockExpired"
    ELSE IF ~CanTransfer(locks[key].token, Vault, locks[key].amount, xferOk)
         THEN "TransferFailed"
    ELSE "Ok"

\* fn release
ReleaseResult(owner, lock_id, auth, xferOk) ==
    LET key == <<owner, lock_id>> IN
    IF ~Initialized THEN "NotInitialized"
    ELSE IF ~auth THEN "AuthFailed"
    ELSE IF ~Has(locks, key) THEN "LockNotFound"
    ELSE IF locks[key].status # "Active" THEN "LockNotActive"
    ELSE IF ledgerSeq > locks[key].expires_at THEN "LockExpired"
    ELSE IF ~CanTransfer(locks[key].token, Vault, locks[key].amount, xferOk)
         THEN "TransferFailed"
    ELSE "Ok"

\* Variant of ReleaseStatus in which a paid lock stays Active.
ReleaseStatus_StaysActive(res, old) ==
    IF res = "LockExpired" THEN "Expired" ELSE old

\* Variant of ReleaseStatus in which the late branch stores nothing.
ReleaseStatus_NoMark(res, old) ==
    IF res = "Ok" THEN "Released" ELSE old

\* The status release leaves in DataKey::Lock(owner, lock_id): the late
\* branch stores the entry marked Expired and then returns Err(LockExpired).
ReleaseStatus(res, old) ==
    IF res = "LockExpired" THEN "Expired"
    ELSE IF res = "Ok" THEN "Released"
    ELSE old

\* Variant of Release that also credits the recipient's vault balance.
Release_CreditsRecipient(owner, lock_id, recipient, auth, xferOk) ==
    LET res == ReleaseResult(owner, lock_id, auth, xferOk)
        key == <<owner, lock_id>>
    IN
    /\ last = NoCall
    /\ last' = VaultOutcome([op |-> "release", owner |-> owner, lock_id |-> lock_id,
                recipient |-> recipient, auth |-> auth, result |-> res,
                pre |-> VaultState])
    /\ IF res \in {"Ok", "LockExpired"}
       THEN locks' = [locks EXCEPT ![key].status =
                          ReleaseStatus(res, locks[key].status)]
       ELSE UNCHANGED locks
    /\ IF res = "Ok"
       THEN /\ holdings' = AfterTransfer(locks[key].token, Vault, recipient,
                                         locks[key].amount)
            /\ balances' = Put(balances, <<recipient, locks[key].token>>,
                               Balance(recipient, locks[key].token)
                                 + locks[key].amount)
       ELSE UNCHANGED <<holdings, balances>>
    /\ UNCHANGED <<vaultOwner, nextLockId, ledgerSeq>>

Release(owner, lock_id, recipient, auth, xferOk) ==
    LET res == ReleaseResult(owner, lock_id, auth, xferOk)
        key == <<owner, lock_id>>
    IN
    /\ last = NoCall
    /\ last' = VaultOutcome([op |-> "release", owner |-> owner, lock_id |-> lock_id,
                recipient |-> recipient, auth |-> auth, result |-> res,
                pre |-> VaultState])
    /\ IF res \in {"Ok", "LockExpired"}
       THEN locks' = [locks EXCEPT ![key].status =
                          ReleaseStatus(res, locks[key].status)]
       ELSE UNCHANGED locks
    /\ IF res = "Ok"
       THEN holdings' = AfterTransfer(locks[key].token, Vault, recipient,
                                      locks[key].amount)
       ELSE UNCHANGED holdings
    /\ UNCHANGED <<vaultOwner, balances, nextLockId, ledgerSeq>>

\* Variant of ReclaimResult without owner.require_auth() (line 248).
ReclaimResult_NoAuth(owner, lock_id, auth) ==
    LET key == <<owner, lock_id>> IN
    IF ~Initialized THEN "NotInitialized"
    ELSE IF ~Has(locks, key) THEN "LockNotFound"
    ELSE IF locks[key].status # "Active" THEN "LockNotActive"
    ELSE IF ledgerSeq <= locks[key].expires_at THEN "LockNotExpired"
    ELSE "Ok"

\* Variant of ReclaimResult with `<` for the `<=` of line 261.
ReclaimResult_OffByOne(owner, lock_id, auth) ==
    LET key == <<owner, lock_id>> IN
    IF ~Initialized THEN "NotInitialized"
    ELSE IF ~auth THEN "AuthFailed"
    ELSE IF ~Has(locks, key) THEN "LockNotFound"
    ELSE IF locks[key].status # "Active" THEN "LockNotActive"
    ELSE IF ledgerSeq < locks[key].expires_at THEN "LockNotExpired"
    ELSE "Ok"

\* fn reclaim
ReclaimResult(owner, lock_id, auth) ==
    LET key == <<owner, lock_id>> IN
    IF ~Initialized THEN "NotInitialized"
    ELSE IF ~auth THEN "AuthFailed"
    ELSE IF ~Has(locks, key) THEN "LockNotFound"
    ELSE IF locks[key].status # "Active" THEN "LockNotActive"
    ELSE IF ledgerSeq <= locks[key].expires_at THEN "LockNotExpired"
    ELSE "Ok"

\* Variant of Reclaim that pays the amount out to the owner's token holding
\* instead of crediting the balance.
Reclaim_PaysOut(owner, lock_id, auth) ==
    LET res == ReclaimResult(owner, lock_id, auth)
        key == <<owner, lock_id>>
    IN
    /\ last = NoCall
    /\ last' = VaultOutcome([op |-> "reclaim", owner |-> owner, lock_id |-> lock_id,
                auth |-> auth, result |-> res, pre |-> VaultState])
    /\ IF res = "Ok"
       THEN /\ holdings' = AfterTransfer(locks[key].token, Vault, owner,
                                         locks[key].amount)
            /\ locks' = [locks EXCEPT ![key].status = "Expired"]
       ELSE UNCHANGED <<holdings, locks>>
    /\ UNCHANGED <<vaultOwner, balances, nextLockId, ledgerSeq>>

\* Variant of Reclaim that also clears the amount of the entry it expires.
Reclaim_ClearsAmount(owner, lock_id, auth) ==
    LET res == ReclaimResult(owner, lock_id, auth)
        key == <<owner, lock_id>>
    IN
    /\ last = NoCall
    /\ last' = VaultOutcome([op |-> "reclaim", owner |-> owner, lock_id |-> lock_id,
                auth |-> auth, result |-> res, pre |-> VaultState])
    /\ IF res = "Ok"
       THEN /\ balances' = Put(balances, <<owner, locks[key].token>>,
                               Balance(owner, locks[key].token) + locks[key].amount)
            /\ locks' = [locks EXCEPT ![key].status = "Expired",
                                      ![key].amount = 0]
       ELSE UNCHANGED <<balances, locks>>
    /\ UNCHANGED <<vaultOwner, nextLockId, holdings, ledgerSeq>>

Reclaim(owner, lock_id, auth) ==
    LET res == ReclaimResult(owner, lock_id, auth)
        key == <<owner, lock_id>>
    IN
    /\ last = NoCall
    /\ last' = VaultOutcome([op |-> "reclaim", owner |-> owner, lock_id |-> lock_id,
                auth |-> auth, result |-> res, pre |-> VaultState])
    /\ IF res = "Ok"
       THEN /\ balances' = Put(balances, <<owner, locks[key].token>>,
                               Balance(owner, locks[key].token) + locks[key].amount)
            /\ locks' = [locks EXCEPT ![key].status = "Expired"]
       ELSE UNCHANGED <<balances, locks>>
    /\ UNCHANGED <<vaultOwner, nextLockId, holdings, ledgerSeq>>

\* fn balance as a call: it has no require_init and no error; it returns the
\* stored amount, or 0 when nothing is stored.
BalanceCall(owner, token) ==
    /\ last = NoCall
    /\ last' = VaultOutcome([op |-> "balance", owner |-> owner, token |-> token,
                result |-> "Ok", value |-> Balance(owner, token),
                pre |-> VaultState])
    /\ UNCHANGED <<vaultOwner, balances, locks, nextLockId, holdings, ledgerSeq>>

\* fn get_lock as a call: it has no require_init; its one error is
\* LockNotFound.
GetLockResult(owner, lock_id) ==
    IF ~Has(locks, <<owner, lock_id>>) THEN "LockNotFound" ELSE "Ok"

GetLockCall(owner, lock_id) ==
    /\ last = NoCall
    /\ last' = VaultOutcome([op |-> "get_lock", owner |-> owner,
                lock_id |-> lock_id, result |-> GetLockResult(owner, lock_id),
                value |-> GetLock(owner, lock_id), pre |-> VaultState])
    /\ UNCHANGED <<vaultOwner, balances, locks, nextLockId, holdings, ledgerSeq>>

\* fn owner: instance().get(&DataKey::Owner).ok_or(NotInitialized)
OwnerResult == IF ~Initialized THEN "NotInitialized" ELSE "Ok"

OwnerCall ==
    /\ last = NoCall
    /\ last' = VaultOutcome([op |-> "owner", result |-> OwnerResult,
                value |-> vaultOwner, pre |-> VaultState])
    /\ UNCHANGED <<vaultOwner, balances, locks, nextLockId, holdings, ledgerSeq>>

\* The caller has seen the outcome of its call; the next call can start.
Return ==
    /\ last # NoCall
    /\ last' = NoCall
    /\ UNCHANGED <<vaultOwner, balances, locks, nextLockId, holdings, ledgerSeq>>

\* The ledger closes between calls: the sequence number advances.
Tick ==
    /\ last = NoCall
    /\ ledgerSeq < MaxSeq
    /\ ledgerSeq' = ledgerSeq + 1
    /\ UNCHANGED <<vaultOwner, balances, locks, nextLockId, holdings, last>>

\* --------------------------------------------------------------- registry
ByteVals == {1, 2}
\* Bytes arguments: the byte strings of at most MaxLen bytes.
BytesArgs == UNION {[1..n -> ByteVals] : n \in 0..MaxLen}
NoBytes   == << >>                     \* Bytes::new(&env)

\* env.crypto().sha256 as a collision-free digest: the digest of a byte
\* string is that string under a tag, so two digests are equal exactly when
\* their preimages are.
Sha256(bytes) == <<"sha256", bytes>>
\* A BytesN<32> that is the digest of no argument (the tests' [1u8; 32]).
RawDigest == <<"raw", <<1>>>>

\* The commitment and proof_hash arguments that are tried.
CommitDigests == {Sha256(<<1, 2>>), Sha256(<<1>>), RawDigest}
ProofDigests  == {Sha256(<<1, 2>>), RawDigest}
TxHashes      == {<<7>>}
CommitIds     == 0..(MaxCommits - 1)
ProofIds      == 0..(MaxProofs - 1)

\* What rlast keeps of a registry call: all of a call that succeeded; of a
\* failed one its operation, the id it named and its outcome.
Outcome(call) ==
    IF call.result = "Ok" THEN call
    ELSE [op |-> call.op, id |-> call.id, result |-> call.result,
          pre |-> call.pre]

\* The registry's stored state, as one value.
RegistryState ==
    [counters |-> counters, commitments |-> commitments, proofs |-> proofs,
     proofByCommit |-> proofByCommit]

RegistryInit ==
    /\ counters = EmptyMap
    /\ commitments = EmptyMap
    /\ proofs = EmptyMap
    /\ proofByCommit = EmptyMap
    /\ ledgerTime = 0
    /\ rlast = NoCall

\* fn commit
CommitResult(auth) == IF ~auth THEN "AuthFailed" ELSE "Ok"

Commit(owner, commitment, auth) ==
    LET res    == CommitResult(auth)
        id     == GetOr(counters, "NextId", 0)
        record == [owner |-> owner, commitment |-> commitment,
                   revealed |-> FALSE, strategy |-> NoBytes,
                   timestamp |-> ledgerTime]
    IN
    /\ rlast = NoCall
    /\ res = "Ok" => /\ id < MaxCommits
                     /\ id + GetOr(counters, "NextProofId", 0) < MaxRecords
    /\ rlast' = Outcome([op |-> "commit", owner |-> owner,
                          commitment |-> commitment, auth |-> auth,
                          id |-> IF res = "Ok" THEN id ELSE -1,
                          result |-> res, pre |-> RegistryState])
    /\ IF res = "Ok"
       THEN /\ commitments' = Put(commitments, id, record)
            /\ counters' = Put(counters, "NextId", id + 1)
       ELSE UNCHANGED <<commitments, counters>>
    /\ UNCHANGED <<proofs, proofByCommit, ledgerTime>>

\* Variant of RevealPreimage that puts the salt first.
RevealPreimage_SaltFirst(strategy, salt) == salt \o strategy

\* fn reveal: the preimage is strategy, then salt.
RevealPreimage(strategy, salt) == strategy \o salt

\* Variant of RevealResult without record.owner.require_auth() (line 124).
RevealResult_NoAuth(commit_id, strategy, salt, auth) ==
    IF ~Has(commitments, commit_id) THEN "NotFound"
    ELSE IF commitments[commit_id].revealed THEN "AlreadyRevealed"
    ELSE IF Sha256(RevealPreimage(strategy, salt)) # commitments[commit_id].commitment
         THEN "HashMismatch"
    ELSE "Ok"

RevealResult(commit_id, strategy, salt, auth) ==
    IF ~Has(commitments, commit_id) THEN "NotFound"
    ELSE IF ~auth THEN "AuthFailed"
    ELSE IF commitments[commit_id].revealed THEN "AlreadyRevealed"
    ELSE IF Sha256(RevealPreimage(strategy, salt)) # commitments[commit_id].commitment
         THEN "HashMismatch"
    ELSE "Ok"

\* Variant of RevealedRecord that also restamps the record.
RevealedRecord_Restamp(record, strategy) ==
    [record EXCEPT !.revealed = TRUE, !.strategy = strategy,
                   !.timestamp = ledgerTime]

\* The record reveal stores: revealed set, the strategy filled in.
RevealedRecord(record, strategy) ==
    [record EXCEPT !.revealed = TRUE, !.strategy = strategy]

\* Variant of Reveal that stores the strategy before the hash is compared.
Reveal_StoreFirst(commit_id, strategy, salt, auth) ==
    LET res == RevealResult(commit_id, strategy, salt, auth) IN
    /\ rlast = NoCall
    /\ rlast' = Outcome([op |-> "reveal", id |-> commit_id,
                          strategy |-> strategy, salt |-> salt, auth |-> auth,
                          result |-> res, pre |-> RegistryState])
    /\ IF res = "Ok"
       THEN commitments' = [commitments EXCEPT ![commit_id] =
                               RevealedRecord(commitments[commit_id], strategy)]
       ELSE IF res = "HashMismatch"
       THEN commitments' = [commitments EXCEPT ![commit_id].strategy = strategy]
       ELSE UNCHANGED commitments
    /\ UNCHANGED <<counters, proofs, proofByCommit, ledgerTime>>

\* auth: the call carries the authorization of the record's stored owner.
Reveal(commit_id, strategy, salt, auth) ==
    LET res == RevealResult(commit_id, strategy, salt, auth) IN
    /\ rlast = NoCall
    /\ rlast' = Outcome([op |-> "reveal", id |-> commit_id,
                          strategy |-> strategy, salt |-> salt, auth |-> auth,
                          result |-> res, pre |-> RegistryState])
    /\ IF res = "Ok"
       THEN commitments' = [commitments EXCEPT ![commit_id] =
                               RevealedRecord(commitments[commit_id], strategy)]
       ELSE UNCHANGED commitments
    /\ UNCHANGED <<counters, proofs, proofByCommit, ledgerTime>>

\* Variant of AttachProofResult without the owner check of lines 175-177.
AttachProofResult_NoOwnerCheck(owner, commit_id, auth) ==
    IF ~auth THEN "AuthFailed"
    ELSE IF ~Has(commitments, commit_id) THEN "CommitNotFound"
    ELSE "Ok"

\* fn attach_proof
AttachProofResult(owner, commit_id, auth) ==
    IF ~auth THEN "AuthFailed"
    ELSE IF ~Has(commitments, commit_id) THEN "CommitNotFound"
    ELSE IF commitments[commit_id].owner # owner THEN "NotOwner"
    ELSE "Ok"

\* Variant of AttachProof that draws proof ids from the commit counter.
AttachProof_SharedCounter(owner, proof_hash, commit_id, tx_hash, auth) ==
    LET res      == AttachProofResult(owner, commit_id, auth)
        proof_id == GetOr(counters, "NextId", 0)
        record   == [owner |-> owner, proof_hash |-> proof_hash,
                     commit_id |-> commit_id, tx_hash |-> tx_hash,
                     revealed |-> FALSE, strategy |-> NoBytes,
                     trade_params |-> NoBytes, timestamp |-> ledgerTime]
    IN
    /\ rlast = NoCall
    /\ res = "Ok" => proof_id < MaxProofs
    /\ rlast' = Outcome([op |-> "attach_proof", owner |-> owner,
                          proof_hash |-> proof_hash, commit_id |-> commit_id,
                          tx_hash |-> tx_hash, auth |-> auth,
                          id |-> IF res = "Ok" THEN proof_id ELSE -1,
                          result |-> res, pre |-> RegistryState])
    /\ IF res = "Ok"
       THEN /\ proofs' = Put(proofs, proof_id, record)
            /\ proofByCommit' = Put(proofByCommit, commit_id, proof_id)
            /\ counters' = Put(counters, "NextId", proof_id + 1)
       ELSE UNCHANGED <<proofs, proofByCommit, counters>>
    /\ UNCHANGED <<commitments, ledgerTime>>

\* Variant of AttachProof that writes the index only for a commitment's
\* first proof.
AttachProof_KeepsFirst(owner, proof_hash, commit_id, tx_hash, auth) ==
    LET res      == AttachProofResult(owner, commit_id, auth)
        proof_id == GetOr(counters, "NextProofId", 0)
        record   == [owner |-> owner, proof_hash |-> proof_hash,
                     commit_id |-> commit_id, tx_hash |-> tx_hash,
                     revealed |-> FALSE, strategy |-> NoBytes,
                     trade_params |-> NoBytes, timestamp |-> ledgerTime]
    IN
    /\ rlast = NoCall
    /\ res = "Ok" => /\ proof_id < MaxProofs
                     /\ proof_id + GetOr(counters, "NextId", 0) < MaxRecords
    /\ rlast' = Outcome([op |-> "attach_proof", owner |-> owner,
                          proof_hash |-> proof_hash, commit_id |-> commit_id,
                          tx_hash |-> tx_hash, auth |-> auth,
                          id |-> IF res = "Ok" THEN proof_id ELSE -1,
                          result |-> res, pre |-> RegistryState])
    /\ IF res = "Ok"
       THEN /\ proofs' = Put(proofs, proof_id, record)
            /\ proofByCommit' = IF Has(proofByCommit, commit_id)
                                THEN proofByCommit
                                ELSE Put(proofByCommit, commit_id, proof_id)
            /\ counters' = Put(counters, "NextProofId", proof_id + 1)
       ELSE UNCHANGED <<proofs, proofByCommit, counters>>
    /\ UNCHANGED <<commitments, ledgerTime>>

AttachProof(owner, proof_hash, commit_id, tx_hash, auth) ==
    LET res      == AttachProofResult(owner, commit_id, auth)
        proof_id == GetOr(counters, "NextProofId", 0)
        record   == [owner |-> owner, proof_hash |-> proof_hash,
                     commit_id |-> commit_id, tx_hash |-> tx_hash,
                     revealed |-> FALSE, strategy |-> NoBytes,
                     trade_params |-> NoBytes, timestamp |-> ledgerTime]
    IN
    /\ rlast = NoCall
    /\ res = "Ok" => /\ proof_id < MaxProofs
                     /\ proof_id + GetOr(counters, "NextId", 0) < MaxRecords
    /\ rlast' = Outcome([op |-> "attach_proof", owner |-> owner,
                          proof_hash |-> proof_hash, commit_id |-> commit_id,
                          tx_hash |-> tx_hash, auth |-> auth,
                          id |-> IF res = "Ok" THEN proof_id ELSE -1,
                          result |-> res, pre |-> RegistryState])
    /\ IF res = "Ok"
       THEN /\ proofs' = Put(proofs, proof_id, record)
            /\ proofByCommit' = Put(proofByCommit, commit_id, proof_id)
            /\ counters' = Put(counters, "NextProofId", proof_id + 1)
       ELSE UNCHANGED <<proofs, proofByCommit, counters>>
    /\ UNCHANGED <<commitments, ledgerTime>>

\* Variant of ProofPreimage that puts trade_params first.
ProofPreimage_ParamsFirst(strategy, trade_params, salt) ==
    trade_params \o strategy \o salt

\* fn reveal_proof: the preimage is strategy, then trade_params, then salt.
ProofPreimage(strategy, trade_params, salt) == strategy \o trade_params \o salt

RevealProofResult(proof_id, strategy, trade_params, salt, auth) ==
    IF ~Has(proofs, proof_id) THEN "ProofNotFound"
    ELSE IF ~auth THEN "AuthFailed"
    ELSE IF proofs[proof_id].revealed THEN "ProofAlreadyRevealed"
    ELSE IF Sha256(ProofPreimage(strategy, trade_params, salt))
              # proofs[proof_id].proof_hash
         THEN "ProofHashMismatch"
    ELSE "Ok"

\* The record reveal_proof stores.
RevealedProof(record, strategy, trade_params) ==
    [record EXCEPT !.revealed = TRUE, !.strategy = strategy,
                   !.trade_params = trade_params]

RevealProof(proof_id, strategy, trade_params, salt, auth) ==
    LET res == RevealProofResult(proof_id, strategy, trade_params, salt, auth) IN
    /\ rlast = NoCall
    /\ rlast' = Outcome([op |-> "reveal_proof", id |-> proof_id,
                          strategy |-> strategy, trade_params |-> trade_params,
                          salt |-> salt, auth |-> auth, result |-> res,
                          pre |-> RegistryState])
    /\ IF res = "Ok"
       THEN proofs' = [proofs EXCEPT ![proof_id] =
                          RevealedProof(proofs[proof_id], strategy, trade_params)]
       ELSE UNCHANGED proofs
    /\ UNCHANGED <<counters, commitments, proofByCommit, ledgerTime>>

\* The caller has seen the outcome of its registry call.
RegistryReturn ==
    /\ rlast # NoCall
    /\ rlast' = NoCall
    /\ UNCHANGED <<counters, commitments, proofs, proofByCommit, ledgerTime>>

\* The ledger closes between calls: the timestamp advances.
TimeTick ==
    /\ rlast = NoCall
    /\ ledgerTime < MaxTime
    /\ ledgerTime' = ledgerTime + 1
    /\ UNCHANGED <<counters, commitments, proofs, proofByCommit, rlast>>

\* ---------------------------------------------------------- specifications
vars == <<vaultVars, regVars>>

Init == VaultInit /\ RegistryInit

\* The vault on its own: the registry shares no storage with it.
VaultNext ==
    \/ \E o \in Addrs, a \in BOOLEAN : VaultInitCall(o, a)
    \/ \E o \in Addrs, t \in Tokens, n \in Amounts, a \in BOOLEAN, x \in BOOLEAN :
          Deposit(o, t, n, a, x)
    \/ \E o \in Addrs, t \in Tokens, n \in Amounts, a \in BOOLEAN, x \in BOOLEAN :
          Withdraw(o, t, n, a, x)
    \/ \E o \in Addrs, t \in Tokens, n \in Amounts, e \in Seqs, a \in BOOLEAN :
          Lock(o, t, n, e, a)
    \/ \E o \in Addrs, i \in LockIds, r \in Addrs, a \in BOOLEAN, x \in BOOLEAN :
          Release(o, i, r, a, x)
    \/ \E o \in Addrs, i \in LockIds, a \in BOOLEAN : Reclaim(o, i, a)
    \/ \E o \in Addrs, t \in Tokens : BalanceCall(o, t)
    \/ \E o \in Addrs, i \in LockIds : GetLockCall(o, i)
    \/ OwnerCall
    \/ Return
    \/ Tick

Next == VaultNext /\ UNCHANGED regVars

Spec == Init /\ [][Next]_vars

\* The registry on its own.
RegistryCalls ==
    \/ \E o \in Addrs, c \in CommitDigests, a \in BOOLEAN : Commit(o, c, a)
    \/ \E i \in CommitIds, s \in BytesArgs, salt \in BytesArgs, a \in BOOLEAN :
          Reveal(i, s, salt, a)
    \/ \E o \in Addrs, h \in ProofDigests, i \in CommitIds, tx \in TxHashes,
          a \in BOOLEAN : AttachProof(o, h, i, tx, a)
    \/ \E i \in ProofIds, s \in BytesArgs, p \in BytesArgs, salt \in BytesArgs,
          a \in BOOLEAN : RevealProof(i, s, p, salt, a)
    \/ RegistryReturn
    \/ TimeTick

RegistryNext == RegistryCalls /\ UNCHANGED vaultVars

RegistrySpec == Init /\ [][RegistryNext]_vars

\* ------------------------------------------------------------------ claims
\* A vault call has just run; last.pre is the state it started from.
VaultCalled == last.op # "none"
Failed      == VaultCalled /\ last.result # "Ok"
LateRelease == VaultCalled /\ last.op = "release" /\ last.result = "LockExpired"
\* The lock a release or reclaim call named, as it was before the call.
NamedKey    == <<last.owner, last.lock_id>>
NamedBefore == last.pre.locks[NamedKey]
OnLock      == VaultCalled /\ last.op \in {"release", "reclaim"}
                 /\ Has(last.pre.locks, NamedKey)

RECURSIVE SumAmounts(_, _)
SumAmounts(keys, lks) ==
    IF keys = {} THEN 0
    ELSE LET k == CHOOSE x \in keys : TRUE
         IN lks[k].amount + SumAmounts(keys \ {k}, lks)

ActiveKeys(lks, owner, token) ==
    {k \in DOMAIN lks : k[1] = owner /\ lks[k].token = token
                         /\ lks[k].status = "Active"}

\* balance(owner, token) + the amounts of the owner's Active locks on token,
\* in the vault state st.
Reserved(st, owner, token) ==
    GetOr(st.balances, <<owner, token>>, 0)
      + SumAmounts(ActiveKeys(st.locks, owner, token), st.locks)

\* C1 (as claimed): for every owner and asset, balance + the sum of the
\* owner's Active lock amounts is unchanged by every lock call, every reclaim
\* call and every failed late release call, and changes only through a
\* successful deposit, a successful withdraw or a timely release.
C1_Conservation ==
    VaultCalled =>
      \A o \in Addrs, t \in Tokens :
        LET before == Reserved(last.pre, o, t)
            after  == Reserved(VaultState, o, t)
        IN /\ (last.op \in {"lock", "reclaim"} \/ LateRelease) => after = before
           /\ after # before =>
                 last.result = "Ok" /\ last.op \in {"deposit", "withdraw", "release"}

\* C2: a release on an existing Active lock after its expiry fails with
\* LockExpired (unless it is not authorized), moves no asset and changes no
\* balance, and leaves the lock stored as Expired, so that get_lock returns
\* status Expired; no other failing vault call changes stored state.
C2_LateReleasePersists ==
    /\ (OnLock /\ last.op = "release" /\ NamedBefore.status = "Active"
          /\ ledgerSeq > NamedBefore.expires_at)
         => last.result \in {"LockExpired", "AuthFailed"}
    /\ LateRelease =>
         /\ Has(last.pre.locks, NamedKey)
         /\ NamedBefore.status = "Active"
         /\ ledgerSeq > NamedBefore.expires_at
         /\ GetLock(last.owner, last.lock_id)
              = [NamedBefore EXCEPT !.status = "Expired"]
         /\ holdings = last.pre.holdings
         /\ balances = last.pre.balances
    /\ (Failed /\ <<vaultOwner, balances, locks, nextLockId>>
                    # <<last.pre.vaultOwner, last.pre.balances,
                        last.pre.locks, last.pre.nextLockId>>)
         => LateRelease

C2_Witness ==
    LateRelease /\ GetLock(last.owner, last.lock_id).status = "Expired"

\* C3: on an Active lock with expiry E, an authorized release whose transfer
\* the token contract accepts succeeds exactly when the ledger sequence is
\* <= E, and then the amount has moved to the recipient; later it fails with
\* LockExpired and the lock is marked Expired.  An authorized reclaim
\* succeeds exactly when the sequence is > E and fails with LockNotExpired
\* otherwise.  So at no sequence number can both succeed on the lock.
C3_ExpiryBoundary ==
    (OnLock /\ NamedBefore.status = "Active") =>
      LET E == NamedBefore.expires_at IN
      /\ last.op = "release" =>
           /\ ledgerSeq <= E => last.result \in {"Ok", "AuthFailed", "TransferFailed"}
           /\ ledgerSeq > E  => last.result \in {"LockExpired", "AuthFailed"}
           /\ last.result = "Ok" =>
                /\ last.pre.holdings[NamedBefore.token][Vault] >= NamedBefore.amount
                /\ holdings[NamedBefore.token][Vault]
                     = last.pre.holdings[NamedBefore.token][Vault] - NamedBefore.amount
                /\ last.recipient # Vault
                /\ holdings[NamedBefore.token][last.recipient]
                     = last.pre.holdings[NamedBefore.token][last.recipient]
                         + NamedBefore.amount
           /\ last.result = "LockExpired" => locks[NamedKey].status = "Expired"
      /\ last.op = "reclaim" =>
           /\ ledgerSeq <= E => last.result \in {"LockNotExpired", "AuthFailed"}
           /\ ledgerSeq > E  => last.result \in {"Ok", "AuthFailed"}

\* A reclaim has succeeded at sequence E + 1.
C3_Witness ==
    /\ OnLock /\ last.op = "reclaim" /\ last.result = "Ok"
    /\ ledgerSeq = NamedBefore.expires_at + 1

\* C4: a lock is created Active; its status changes only from Active to
\* Released (a successful release) or from Active to Expired (a late release
\* or a successful reclaim); a Released or Expired lock keeps its status, and
\* an authorized release or reclaim on it fails with LockNotActive.
C4_StatusMonotonic ==
    VaultCalled =>
      /\ \A k \in DOMAIN locks :
           IF Has(last.pre.locks, k)
           THEN LET old == last.pre.locks[k].status
                    new == locks[k].status
                IN \/ new = old
                   \/ /\ old = "Active" /\ new = "Released"
                      /\ last.op = "release" /\ last.result = "Ok"
                      /\ NamedKey = k /\ ledgerSeq <= last.pre.locks[k].expires_at
                   \/ /\ old = "Active" /\ new = "Expired"
                      /\ \/ LateRelease
                         \/ last.op = "reclaim" /\ last.result = "Ok"
                      /\ NamedKey = k /\ ledgerSeq > last.pre.locks[k].expires_at
           ELSE /\ locks[k].status = "Active"
                /\ last.op = "lock" /\ last.result = "Ok"
      /\ DOMAIN last.pre.locks \subseteq DOMAIN locks
      /\ (OnLock /\ NamedBefore.status # "Active") =>
            /\ last.result \in {"LockNotActive", "AuthFailed"}
            /\ locks[NamedKey] = NamedBefore

\* A release or reclaim has been refused on a Released or Expired lock.
C4_Witness ==
    OnLock /\ NamedBefore.status \in {"Released", "Expired"}
           /\ last.result = "LockNotActive"

\* C5: apart from the late release, a failing init, deposit, withdraw, lock,
\* release or reclaim leaves every balance, every lock entry, every lock id
\* counter, the stored contract owner and the token holdings as they were.
C5_FailureChangesNothing ==
    (Failed /\ ~LateRelease) => VaultState = last.pre

\* A withdraw has failed in the token contract's transfer.
C5_Witness ==
    VaultCalled /\ last.op = "withdraw" /\ last.result = "TransferFailed"

\* C6: every stored balance is >= 0.
C6_BalanceNonNegative ==
    \A k \in DOMAIN balances : balances[k] >= 0

\* A withdraw or a lock has taken a stored balance down to 0.
C6_Witness ==
    /\ VaultCalled /\ last.op \in {"withdraw", "lock"} /\ last.result = "Ok"
    /\ balances[<<last.owner, last.token>>] = 0

\* A registry call has just run; rlast.pre is the state it started from.
RegistryCalled == rlast.op # "none"

C7_State ==
    (RegistryCalled /\ rlast.op = "reveal" /\ Has(rlast.pre.commitments, rlast.id)) =>
      LET old == rlast.pre.commitments[rlast.id] IN
      /\ rlast.result = "Ok" =>
           /\ ~old.revealed
           /\ Sha256(rlast.strategy \o rlast.salt) = old.commitment
           /\ commitments[rlast.id]
                = [old EXCEPT !.revealed = TRUE, !.strategy = rlast.strategy]
      /\ old.revealed => /\ rlast.result \in {"AlreadyRevealed", "AuthFailed"}
                         /\ commitments[rlast.id] = old

C7_Step ==
    (rlast = NoCall /\ rlast'.op = "reveal") =>
    \A i \in CommitIds, s \in BytesArgs, salt \in BytesArgs :
      (Reveal(i, s, salt, TRUE) /\ Has(commitments, i)) =>
         rlast'.result =
            IF commitments[i].revealed THEN "AlreadyRevealed"
            ELSE IF Sha256(s \o salt) = commitments[i].commitment THEN "Ok"
            ELSE "HashMismatch"

\* C7: a reveal authorized by the record's owner, on an existing record not
\* yet revealed, succeeds exactly when sha256(strategy ++ salt), strategy
\* first, is the stored commitment, and fails with HashMismatch otherwise; a
\* successful reveal sets revealed and stores the supplied strategy and
\* nothing else; a reveal on a revealed record never succeeds and, when
\* authorized, fails with AlreadyRevealed.
C7_RevealSoundness == []C7_State /\ [][C7_Step]_vars

\* A second reveal has been refused on a record that holds its strategy.
C7_Witness ==
    /\ RegistryCalled /\ rlast.op = "reveal" /\ rlast.result = "AlreadyRevealed"
    /\ commitments[rlast.id].revealed
    /\ commitments[rlast.id].strategy # NoBytes

C8_State ==
    (RegistryCalled /\ rlast.op = "reveal_proof" /\ Has(rlast.pre.proofs, rlast.id)) =>
      LET old == rlast.pre.proofs[rlast.id] IN
      /\ rlast.result = "Ok" =>
           /\ ~old.revealed
           /\ Sha256(rlast.strategy \o rlast.trade_params \o rlast.salt)
                = old.proof_hash
           /\ proofs[rlast.id]
                = [old EXCEPT !.revealed = TRUE, !.strategy = rlast.strategy,
                              !.trade_params = rlast.trade_params]
      /\ old.revealed => /\ rlast.result \in {"ProofAlreadyRevealed", "AuthFailed"}
                         /\ proofs[rlast.id] = old

C8_Step ==
    (rlast = NoCall /\ rlast'.op = "reveal_proof") =>
    \A i \in ProofIds, s \in BytesArgs, p \in BytesArgs, salt \in BytesArgs :
      (RevealProof(i, s, p, salt, TRUE) /\ Has(proofs, i)) =>
         rlast'.result =
            IF proofs[i].revealed THEN "ProofAlreadyRevealed"
            ELSE IF Sha256(s \o p \o salt) = proofs[i].proof_hash THEN "Ok"
            ELSE "ProofHashMismatch"

\* C8: a reveal_proof authorized by the proof's owner, on an existing proof
\* not yet revealed, succeeds exactly when
\* sha256(strategy ++ trade_params ++ salt) is the stored proof hash, and
\* fails with ProofHashMismatch otherwise; on success it sets revealed and
\* stores the supplied strategy and trade_params and nothing else; on a
\* revealed proof it never succeeds and, when authorized, fails with
\* ProofAlreadyRevealed.
C8_ProofSoundness == []C8_State /\ [][C8_Step]_vars

\* A second reveal_proof has been refused on a proof that holds its payloads.
C8_Witness ==
    /\ RegistryCalled /\ rlast.op = "reveal_proof"
    /\ rlast.result = "ProofAlreadyRevealed"
    /\ proofs[rlast.id].revealed
    /\ proofs[rlast.id].strategy # NoBytes
    /\ proofs[rlast.id].trade_params # NoBytes

\* C9: a registry call that fails leaves every commitment record, every proof
\* record, the commit_id -> proof_id index and both id counters as they were;
\* after a reveal that fails with HashMismatch the record has revealed = false
\* and an empty strategy.
C9_FailureChangesNothing ==
    (RegistryCalled /\ rlast.result # "Ok") =>
      /\ RegistryState = rlast.pre
      /\ rlast.result = "HashMismatch" =>
           /\ Has(commitments, rlast.id)
           /\ ~commitments[rlast.id].revealed
           /\ commitments[rlast.id].strategy = NoBytes

\* A reveal has failed with HashMismatch.
C9_Witness ==
    RegistryCalled /\ rlast.op = "reveal" /\ rlast.result = "HashMismatch"

\* C10: records are never removed; a record is created with revealed = false
\* and empty payloads; its owner, hash, commit_id, tx_hash and timestamp never
\* change; a revealed record never changes again, so revealed never returns
\* to false; a record changes only in a successful reveal or reveal_proof
\* that names it; and an unrevealed record has empty payloads.
C10_Latches ==
    /\ \A i \in DOMAIN commitments :
         ~commitments[i].revealed => commitments[i].strategy = NoBytes
    /\ \A i \in DOMAIN proofs :
         ~proofs[i].revealed => /\ proofs[i].strategy = NoBytes
                                /\ proofs[i].trade_params = NoBytes
    /\ RegistryCalled =>
         /\ DOMAIN rlast.pre.commitments \subseteq DOMAIN commitments
         /\ DOMAIN rlast.pre.proofs \subseteq DOMAIN proofs
         /\ \A i \in DOMAIN commitments :
              LET new == commitments[i] IN
              IF Has(rlast.pre.commitments, i)
              THEN LET old == rlast.pre.commitments[i] IN
                   /\ new.owner = old.owner
                   /\ new.commitment = old.commitment
                   /\ new.timestamp = old.timestamp
                   /\ old.revealed => new = old
                   /\ new # old => /\ rlast.op = "reveal" /\ rlast.result = "Ok"
                                   /\ rlast.id = i
              ELSE /\ ~new.revealed /\ new.strategy = NoBytes
                   /\ rlast.op = "commit" /\ rlast.result = "Ok"
         /\ \A i \in DOMAIN proofs :
              LET new == proofs[i] IN
              IF Has(rlast.pre.proofs, i)
              THEN LET old == rlast.pre.proofs[i] IN
                   /\ new.owner = old.owner
                   /\ new.proof_hash = old.proof_hash
                   /\ new.commit_id = old.commit_id
                   /\ new.tx_hash = old.tx_hash
                   /\ new.timestamp = old.timestamp
                   /\ old.revealed => new = old
                   /\ new # old => /\ rlast.op = "reveal_proof"
                                   /\ rlast.result = "Ok" /\ rlast.id = i
              ELSE /\ ~new.revealed /\ new.strategy = NoBytes
                   /\ new.trade_params = NoBytes
                   /\ rlast.op = "attach_proof" /\ rlast.result = "Ok"

\* A reveal has succeeded at a later timestamp than the record's own.
C10_Witness ==
    /\ RegistryCalled /\ rlast.op = "reveal" /\ rlast.result = "Ok"
    /\ commitments[rlast.id].revealed
    /\ commitments[rlast.id].timestamp < ledgerTime

\* The lock ids owner holds in the lock map lks.
IdsOf(lks, owner) == {k[2] : k \in {x \in DOMAIN lks : x[1] = owner}}

\* C11: a successful lock call of an owner returns the owner's counter
\* (0 when the owner has none) and advances it by one, so that the ids of an
\* owner's locks are 0, 1, 2, ... with no gap and no repeat; a failed lock
\* call, every call of another kind, and every lock call of another owner
\* leave the owner's counter as it was.
C11_LockIdsMonotonic ==
    /\ \A o \in Addrs :
         IdsOf(locks, o) = 0..(GetOr(nextLockId, o, 0) - 1)
    /\ VaultCalled =>
         IF last.op = "lock" /\ last.result = "Ok"
         THEN /\ last.lock_id = GetOr(last.pre.nextLockId, last.owner, 0)
              /\ ~Has(last.pre.locks, <<last.owner, last.lock_id>>)
              /\ Has(locks, <<last.owner, last.lock_id>>)
              /\ GetOr(nextLockId, last.owner, 0) = last.lock_id + 1
              /\ \A o \in Addrs \ {last.owner} :
                   GetOr(nextLockId, o, 0) = GetOr(last.pre.nextLockId, o, 0)
         ELSE nextLockId = last.pre.nextLockId

\* An owner's second lock has returned id 1 while the other owner's counter
\* has not moved.
C11_Witness ==
    /\ VaultCalled /\ last.op = "lock" /\ last.result = "Ok"
    /\ last.lock_id = 1
    /\ \A o \in Addrs \ {last.owner} : GetOr(nextLockId, o, 0) = 0

NextId      == GetOr(counters, "NextId", 0)
NextProofId == GetOr(counters, "NextProofId", 0)

\* C12: a successful commit returns the commit counter and advances it by
\* one, whoever the owner is, and leaves the proof counter alone; a
\* successful attach_proof does the same with the proof counter and leaves
\* the commit counter alone; no other call moves either counter; the stored
\* ids are 0 .. counter - 1, and a new record takes an id that held no
\* record and leaves every existing record as it was.
C12_RegistryIdsMonotonic ==
    /\ DOMAIN commitments = 0..(NextId - 1)
    /\ DOMAIN proofs = 0..(NextProofId - 1)
    /\ RegistryCalled =>
         LET preNextId      == GetOr(rlast.pre.counters, "NextId", 0)
             preNextProofId == GetOr(rlast.pre.counters, "NextProofId", 0)
         IN
         IF rlast.op = "commit" /\ rlast.result = "Ok"
         THEN /\ rlast.id = preNextId
              /\ NextId = preNextId + 1
              /\ NextProofId = preNextProofId
              /\ ~Has(rlast.pre.commitments, rlast.id)
              /\ \A i \in DOMAIN rlast.pre.commitments :
                   commitments[i] = rlast.pre.commitments[i]
              /\ proofs = rlast.pre.proofs
         ELSE IF rlast.op = "attach_proof" /\ rlast.result = "Ok"
         THEN /\ rlast.id = preNextProofId
              /\ NextProofId = preNextProofId + 1
              /\ NextId = preNextId
              /\ ~Has(rlast.pre.proofs, rlast.id)
              /\ \A i \in DOMAIN rlast.pre.proofs :
                   proofs[i] = rlast.pre.proofs[i]
              /\ commitments = rlast.pre.commitments
         ELSE counters = rlast.pre.counters

\* A second commit, by another owner than the first, has returned id 1 after
\* a proof was attached.
C12_Witness ==
    /\ RegistryCalled /\ rlast.op = "commit" /\ rlast.result = "Ok"
    /\ rlast.id = 1
    /\ commitments[0].owner # rlast.owner
    /\ NextProofId = 1

C13_State ==
    \A p \in DOMAIN proofs :
      /\ Has(commitments, proofs[p].commit_id)
      /\ commitments[proofs[p].commit_id].owner = proofs[p].owner

C13_Step ==
    (rlast = NoCall /\ rlast'.op = "attach_proof") =>
    \A o \in Addrs, h \in ProofDigests, i \in CommitIds, tx \in TxHashes :
      AttachProof(o, h, i, tx, TRUE) =>
         rlast'.result =
            IF ~Has(commitments, i) THEN "CommitNotFound"
            ELSE IF commitments[i].owner # o THEN "NotOwner"
            ELSE "Ok"

\* C13: an attach_proof authorized by its owner argument fails with
\* CommitNotFound when commit_id names no commitment, with NotOwner when the
\* commitment's stored owner is not the owner argument, and succeeds
\* otherwise; in every state every stored proof's commit_id names a stored
\* commitment whose owner is the proof's owner.
C13_ProofIntegrity == []C13_State /\ [][C13_Step]_vars

\* A proof is stored and an attach_proof by another owner has been refused.
C13_Witness ==
    /\ RegistryCalled /\ rlast.op = "attach_proof" /\ rlast.result = "NotOwner"
    /\ proofs # EmptyMap

C14_Step ==
    (rlast = NoCall /\ rlast'.op \in {"reveal", "reveal_proof"}) =>
      /\ \A i \in CommitIds, s \in BytesArgs, salt \in BytesArgs :
           (Reveal(i, s, salt, FALSE) /\ Has(commitments, i)) =>
              /\ rlast'.result = "AuthFailed"
              /\ commitments'[i] = commitments[i]
              /\ UNCHANGED <<counters, commitments, proofs, proofByCommit>>
      /\ \A i \in ProofIds, s \in BytesArgs, p \in BytesArgs, salt \in BytesArgs :
           (RevealProof(i, s, p, salt, FALSE) /\ Has(proofs, i)) =>
              /\ rlast'.result = "AuthFailed"
              /\ proofs'[i] = proofs[i]
              /\ UNCHANGED <<counters, commitments, proofs, proofByCommit>>

\* C14: reveal and reveal_proof have no owner argument; a reveal or
\* reveal_proof that names a stored record and is not authorized by the owner
\* stored in that record fails, whatever strategy, trade_params and salt it
\* supplies (a matching preimage included), and leaves the record and the
\* rest of the registry as they were.
C14_RevealNeedsStoredOwner == [][C14_Step]_vars

\* A reveal without the stored owner's authorization has been refused on an
\* unrevealed record whose commitment is the digest of arguments that are
\* tried.
C14_Witness ==
    /\ RegistryCalled /\ rlast.op = "reveal" /\ rlast.result = "AuthFailed"
    /\ Has(commitments, rlast.id)
    /\ ~commitments[rlast.id].revealed
    /\ \E s \in BytesArgs, salt \in BytesArgs :
         commitments[rlast.id].commitment = Sha256(s \o salt)

\* A vault call other than init has just run on a vault that init had not
\* initialized.
BeforeInit == VaultCalled /\ last.op # "init" /\ last.pre.vaultOwner = NoOwner

\* C15 (as claimed): every call of deposit, withdraw, lock, release, reclaim,
\* balance, get_lock or owner made before init has run fails with
\* NotInitialized and changes no state.
C15_AllNotInitialized ==
    BeforeInit => /\ last.result = "NotInitialized"
                  /\ VaultState = last.pre

\* C15 (amended): before init has run, deposit, withdraw, lock, release,
\* reclaim and owner fail with NotInitialized, whatever their arguments and
\* authorization; balance does not fail and returns 0; get_lock fails with
\* LockNotFound; none of them changes state.
C15_NotInitialized ==
    BeforeInit =>
      /\ VaultState = last.pre
      /\ last.op \in {"deposit", "withdraw", "lock", "release", "reclaim", "owner"}
           => last.result = "NotInitialized"
      /\ last.op = "balance" => last.result = "Ok" /\ last.value = 0
      /\ last.op = "get_lock" => last.result = "LockNotFound"

\* A deposit has been refused on the vault before init.
C15_Witness ==
    BeforeInit /\ last.op = "deposit" /\ last.result = "NotInitialized"

C16_State ==
    /\ \A k \in DOMAIN locks : locks[k].amount > 0 /\ locks[k].expires_at > 0
    /\ (VaultCalled /\ last.op = "lock" /\ last.result = "Ok") =>
         LET key    == <<last.owner, last.lock_id>>
             bal    == <<last.owner, last.token>>
             before == GetOr(last.pre.balances, bal, 0)
         IN
         /\ last.amount > 0
         /\ last.expires_at > ledgerSeq
         /\ before >= last.amount
         /\ balances[bal] = before - last.amount
         /\ \A b \in DOMAIN last.pre.balances \ {bal} :
              balances[b] = last.pre.balances[b]
         /\ DOMAIN balances = DOMAIN last.pre.balances \cup {bal}
         /\ locks[key] = [token |-> last.token, amount |-> last.amount,
                          expires_at |-> last.expires_at, status |-> "Active"]
         /\ \A k \in DOMAIN last.pre.locks : locks[k] = last.pre.locks[k]
         /\ DOMAIN locks = DOMAIN last.pre.locks \cup {key}
         /\ holdings = last.pre.holdings

C16_Step ==
    (last = NoCall /\ last'.op = "lock") =>
    \A o \in Addrs, t \in Tokens, n \in Amounts, e \in Seqs :
      (Lock(o, t, n, e, TRUE) /\ Initialized) =>
         last'.result =
            IF n <= 0 THEN "InvalidAmount"
            ELSE IF e <= ledgerSeq THEN "InvalidExpiry"
            ELSE IF Balance(o, t) < n THEN "InsufficientFunds"
            ELSE "Ok"

\* C16: on an initialized vault a lock authorized by its owner fails with
\* InvalidAmount when amount <= 0, else with InvalidExpiry when
\* expires_at <= the ledger sequence, else with InsufficientFunds when
\* balance(owner, token) < amount, and succeeds otherwise; a successful lock
\* takes exactly amount off balance(owner, token), stores an Active entry
\* with that token, amount and expires_at, and changes no other balance, no
\* other lock and no token holding; so every stored entry has amount > 0 and
\* an expires_at above the sequence number of its creation.
C16_LockContract == []C16_State /\ [][C16_Step]_vars

\* A lock of part of the balance has succeeded.
C16_Witness ==
    /\ VaultCalled /\ last.op = "lock" /\ last.result = "Ok"
    /\ balances[<<last.owner, last.token>>] > 0
    /\ last.expires_at = ledgerSeq + 1

\* The token holdings of every account but the two named are as before the
\* call, and so are those of every other token.
OtherHoldingsKept(token, a, b) ==
    \A t \in Tokens, h \in Addrs \cup {Vault} :
      (t # token \/ h \notin {a, b}) => holdings[t][h] = last.pre.holdings[t][h]

\* Every balance but the one named is as before the call.
OtherBalancesKept(bal) ==
    /\ DOMAIN balances = DOMAIN last.pre.balances \cup {bal}
    /\ \A b \in DOMAIN last.pre.balances \ {bal} : balances[b] = last.pre.balances[b]

C17_State ==
    (VaultCalled /\ last.op \in {"deposit", "withdraw"}) =>
      LET bal    == <<last.owner, last.token>>
          before == GetOr(last.pre.balances, bal, 0)
          held   == last.pre.holdings[last.token]
      IN
      /\ (last.op = "deposit" /\ last.result = "Ok") =>
           /\ last.amount > 0
           /\ holdings[last.token][last.owner] = held[last.owner] - last.amount
           /\ holdings[last.token][Vault] = held[Vault] + last.amount
           /\ balances[bal] = before + last.amount
      /\ (last.op = "withdraw" /\ last.result = "Ok") =>
           /\ last.amount > 0
           /\ before >= last.amount
           /\ balances[bal] = before - last.amount
           /\ holdings[last.token][last.owner] = held[last.owner] + last.amount
           /\ holdings[last.token][Vault] = held[Vault] - last.amount
      /\ last.result = "Ok" =>
           /\ OtherHoldingsKept(last.token, last.owner, Vault)
           /\ OtherBalancesKept(bal)
           /\ locks = last.pre.locks
      /\ last.result = "InsufficientFunds" =>
           /\ last.amount > before
           /\ VaultState = last.pre

C17_Step ==
    (last = NoCall /\ last'.op = "withdraw") =>
    \A o \in Addrs, t \in Tokens, n \in Amounts, x \in BOOLEAN :
      (Withdraw(o, t, n, TRUE, x) /\ Initialized /\ n > Balance(o, t)) =>
         last'.result = "InsufficientFunds"

\* C17: a successful deposit takes amount (> 0) from the owner's token
\* holding into the vault's and adds exactly amount to
\* balance(owner, token); a withdraw succeeds only with amount > 0 and
\* balance(owner, token) >= amount, and then takes exactly amount off that
\* balance and moves amount from the vault's holding to the owner's; neither
\* changes anything else; an authorized withdraw of more than
\* balance(owner, token) fails with InsufficientFunds, the owner's Active
\* locks on the token notwithstanding.
C17_DepositWithdraw == []C17_State /\ [][C17_Step]_vars

\* A withdraw has failed with InsufficientFunds although the balance and the
\* owner's Active locks on the token together cover the amount.
C17_Witness ==
    /\ VaultCalled /\ last.op = "withdraw" /\ last.result = "InsufficientFunds"
    /\ last.amount <= Reserved(VaultState, last.owner, last.token)

\* C18: a successful release - one on an Active lock at a ledger sequence
\* <= its expires_at - moves exactly the entry's amount of the entry's token
\* from the vault's holding to the recipient's, stores the entry as Released
\* with its other fields as they were, and changes no balance of the vault,
\* no other lock and no other holding.
C18_TimelyRelease ==
    (OnLock /\ last.op = "release" /\ last.result = "Ok") =>
      LET held == last.pre.holdings[NamedBefore.token] IN
      /\ NamedBefore.status = "Active"
      /\ ledgerSeq <= NamedBefore.expires_at
      /\ holdings[NamedBefore.token][Vault] = held[Vault] - NamedBefore.amount
      /\ holdings[NamedBefore.token][last.recipient]
           = held[last.recipient] + NamedBefore.amount
      /\ OtherHoldingsKept(NamedBefore.token, Vault, last.recipient)
      /\ locks = [last.pre.locks EXCEPT ![NamedKey].status = "Released"]
      /\ balances = last.pre.balances
      /\ nextLockId = last.pre.nextLockId

\* A release has paid a recipient other than the lock's owner.
C18_Witness ==
    /\ OnLock /\ last.op = "release" /\ last.result = "Ok"
    /\ last.recipient # last.owner
    /\ holdings[NamedBefore.token][last.recipient] > 0

\* C19: a successful reclaim - one on an Active lock at a ledger sequence
\* above its expires_at - adds exactly the entry's amount to
\* balance(owner, entry token), stores the entry as Expired with its other
\* fields as they were, and moves no token; the owner can then withdraw the
\* amount, or lock it again, in an authorized call.
C19_Reclaim ==
    (OnLock /\ last.op = "reclaim" /\ last.result = "Ok") =>
      LET bal == <<last.owner, NamedBefore.token>> IN
      /\ NamedBefore.status = "Active"
      /\ ledgerSeq > NamedBefore.expires_at
      /\ balances[bal] = GetOr(last.pre.balances, bal, 0) + NamedBefore.amount
      /\ OtherBalancesKept(bal)
      /\ locks = [last.pre.locks EXCEPT ![NamedKey].status = "Expired"]
      /\ holdings = last.pre.holdings
      /\ nextLockId = last.pre.nextLockId
      /\ WithdrawResult(last.owner, NamedBefore.token, NamedBefore.amount,
                        TRUE, TRUE) = "Ok"
      /\ LockResult(last.owner, NamedBefore.token, NamedBefore.amount,
                    ledgerSeq + 1, TRUE) = "Ok"

\* A reclaim has succeeded for an owner whose balance of the token was 0.
C19_Witness ==
    /\ OnLock /\ last.op = "reclaim" /\ last.result = "Ok"
    /\ GetOr(last.pre.balances, <<last.owner, NamedBefore.token>>, 0) = 0
    /\ balances[<<last.owner, NamedBefore.token>>] = NamedBefore.amount

\* The outcome of a call that lacks its owner argument's authorization.
Unauthorized == IF Initialized THEN "AuthFailed" ELSE "NotInitialized"

\* The call that has just been made was refused and stored and moved nothing.
Refused ==
    /\ last'.result = Unauthorized
    /\ UNCHANGED <<vaultOwner, balances, locks, nextLockId, holdings>>

C20_Step ==
    last = NoCall =>
      /\ last'.op = "deposit" =>
           \A o \in Addrs, t \in Tokens, n \in Amounts, x \in BOOLEAN :
             Deposit(o, t, n, FALSE, x) => Refused
      /\ last'.op = "withdraw" =>
           \A o \in Addrs, t \in Tokens, n \in Amounts, x \in BOOLEAN :
             Withdraw(o, t, n, FALSE, x) => Refused
      /\ last'.op = "lock" =>
           \A o \in Addrs, t \in Tokens, n \in Amounts, e \in Seqs :
             Lock(o, t, n, e, FALSE) => Refused
      /\ last'.op = "release" =>
           \A o \in Addrs, i \in LockIds, r \in Addrs, x \in BOOLEAN :
             Release(o, i, r, FALSE, x) => Refused
      /\ last'.op = "reclaim" =>
           \A o \in Addrs, i \in LockIds :
             Reclaim(o, i, FALSE) => Refused

C21_EntryImmutable ==
    VaultCalled =>
      \A k \in DOMAIN last.pre.locks :
        LET old == last.pre.locks[k] IN
        /\ Has(locks, k)
        /\ locks[k].token = old.token
        /\ locks[k].amount = old.amount
        /\ locks[k].expires_at = old.expires_at
        /\ locks[k] # old => /\ last.op \in {"release", "reclaim"}
                             /\ NamedKey = k
                             /\ locks[k] = [old EXCEPT !.status = locks[k].status]

\* A reclaim has changed the entry it named.
C21_Witness ==
    /\ OnLock /\ last.op = "reclaim"
    /\ locks[NamedKey] # NamedBefore
    /\ locks[NamedKey].amount = NamedBefore.amount

\* The proofs of the proof map prfs whose record links to commit_id.
LinkedProofs(prfs, commit_id) ==
    {p \in DOMAIN prfs : prfs[p].commit_id = commit_id}

\* The largest element of a non-empty set of ids.
Largest(ids) == CHOOSE m \in ids : \A i \in ids : i <= m

\* C22: the index has an entry for exactly the commit ids that have a proof,
\* and the entry is the largest proof id linked to that commit id, the proof
\* attached last; a successful attach_proof writes the entry of its commit_id
\* and no other, and leaves every earlier proof stored as it was; no other
\* call changes the index.
C22_IndexNamesLatest ==
    /\ \A c \in CommitIds :
         /\ Has(proofByCommit, c) <=> LinkedProofs(proofs, c) # {}
         /\ Has(proofByCommit, c) =>
              proofByCommit[c] = Largest(LinkedProofs(proofs, c))
    /\ RegistryCalled =>
         IF rlast.op = "attach_proof" /\ rlast.result = "Ok"
         THEN /\ proofByCommit = Put(rlast.pre.proofByCommit, rlast.commit_id, rlast.id)
              /\ proofs[rlast.id].commit_id = rlast.commit_id
              /\ \A p \in DOMAIN rlast.pre.proofs :
                   Has(proofs, p) /\ proofs[p] = rlast.pre.proofs[p]
         ELSE proofByCommit = rlast.pre.proofByCommit

\* A second proof has been attached to a commitment that had one: the index
\* has moved from the first proof to the second, and the first is still
\* stored.
C22_Witness ==
    /\ RegistryCalled /\ rlast.op = "attach_proof" /\ rlast.result = "Ok"
    /\ Has(rlast.pre.proofByCommit, rlast.commit_id)
    /\ proofByCommit[rlast.commit_id] # rlast.pre.proofByCommit[rlast.commit_id]
    /\ Has(proofs, rlast.pre.proofByCommit[rlast.commit_id])

RECURSIVE SumReserved(_, _, _)
SumReserved(owners, st, token) ==
    IF owners = {} THEN 0
    ELSE LET o == CHOOSE x \in owners : TRUE
         IN Reserved(st, o, token) + SumReserved(owners \ {o}, st, token)

\* What the vault owes in token: every owner's balance and every Active lock.
Owed(token) == SumReserved(Addrs, VaultState, token)

\* C23: for every token the vault's holding is at least the sum of all
\* owners' balances of the token and of the amounts of all Active locks on
\* it; so a withdraw or a release that passes the vault's checks never fails
\* for want of tokens in the vault.
C23_Solvency ==
    /\ \A t \in Tokens : holdings[t][Vault] >= Owed(t)
    /\ \A o \in Addrs, t \in Tokens, n \in Amounts :
         WithdrawResult(o, t, n, TRUE, TRUE) # "TransferFailed"
    /\ \A o \in Addrs, i \in LockIds :
         ReleaseResult(o, i, TRUE, TRUE) # "TransferFailed"

\* A release has been paid and the vault still holds exactly what it owes,
\* which is more than nothing.
C23_Witness ==
    /\ OnLock /\ last.op = "release" /\ last.result = "Ok"
    /\ holdings[NamedBefore.token][Vault] > 0
    /\ holdings[NamedBefore.token][Vault] = Owed(NamedBefore.token)

\* The call that has just run paid the amount of the lock it named to a
\* recipient, and credited nothing.
PaidByRelease ==
    /\ last.op = "release" /\ last.result = "Ok"
    /\ holdings[NamedBefore.token][last.recipient]
         = last.pre.holdings[NamedBefore.token][last.recipient] + NamedBefore.amount
    /\ balances = last.pre.balances

\* The call that has just run credited the amount of the lock it named to
\* its owner's balance, and paid nothing.
CreditedByReclaim ==
    /\ last.op = "reclaim" /\ last.result = "Ok"
    /\ balances[<<last.owner, NamedBefore.token>>]
         = GetOr(last.pre.balances, <<last.owner, NamedBefore.token>>, 0)
             + NamedBefore.amount
    /\ holdings = last.pre.holdings

\* A release or reclaim on a lock that is no longer Active pays and credits
\* nothing, and a lock that is not named by the call stays as it is.
NoSecondPayout ==
    VaultCalled =>
      /\ (OnLock /\ NamedBefore.status # "Active") =>
            /\ last.result # "Ok"
            /\ holdings = last.pre.holdings
            /\ balances = last.pre.balances
      /\ \A k \in DOMAIN last.pre.locks :
           locks[k].status # last.pre.locks[k].status =>
              /\ OnLock /\ NamedKey = k
              /\ last.pre.locks[k].status = "Active"

\* C24 (as claimed): the amount of a lock leaves the Active reservation at
\* most once, and when it does it is either transferred to the recipient by
\* the release or credited to the owner's balance by the reclaim, never both
\* and never again.
C24_SinglePayout ==
    /\ NoSecondPayout
    /\ (OnLock /\ NamedBefore.status = "Active"
          /\ locks[NamedKey].status # "Active")
         => (PaidByRelease \/ CreditedByReclaim)

\* The part of C24 that holds: a lock leaves Active at most once, by a paying
\* release, by a crediting reclaim, or by a late release that pays and
\* credits nothing; it is never paid and credited both, and never twice.
C24_AtMostOnce ==
    /\ NoSecondPayout
    /\ (OnLock /\ NamedBefore.status = "Active"
          /\ locks[NamedKey].status # "Active")
         => \/ PaidByRelease
            \/ CreditedByReclaim
            \/ /\ LateRelease
               /\ holdings = last.pre.holdings
               /\ balances = last.pre.balances

\* C25 (as claimed): with a collision-free hash, when a record's commitment
\* is hash(s ++ salt), a successful reveal on it stores s and no other
\* strategy; when a proof's hash is hash(s ++ p ++ salt), a successful
\* reveal_proof on it stores s and p and no other pair.
C25_Binding ==
    (RegistryCalled /\ rlast.result = "Ok") =>
      /\ rlast.op = "reveal" =>
           \A s \in BytesArgs, salt \in BytesArgs :
             commitments[rlast.id].commitment = Sha256(s \o salt)
               => commitments[rlast.id].strategy = s
      /\ rlast.op = "reveal_proof" =>
           \A s \in BytesArgs, p \in BytesArgs, salt \in BytesArgs :
             proofs[rlast.id].proof_hash = Sha256(s \o p \o salt)
               => /\ proofs[rlast.id].strategy = s
                  /\ proofs[rlast.id].trade_params = p

\* What does hold: a successful reveal stores a strategy that, followed by
\* the salt of the call, is the preimage of the commitment; so two reveals
\* that pass against one commitment agree on the concatenation, not on where
\* the strategy ends.
C25_PreimageBound ==
    (RegistryCalled /\ rlast.result = "Ok") =>
      /\ rlast.op = "reveal" =>
           commitments[rlast.id].commitment
             = Sha256(commitments[rlast.id].strategy \o rlast.salt)
      /\ rlast.op = "reveal_proof" =>
           proofs[rlast.id].proof_hash
             = Sha256(proofs[rlast.id].strategy \o proofs[rlast.id].trade_params
                        \o rlast.salt)

\* Mint of the two-token run: A holds one unit of each token, B one unit of
\* T.
MintedBoth(t, h) ==
    IF h = "A" THEN 1
    ELSE IF h = "B" /\ t = "T" THEN 1
    ELSE 0

VaultInitBoth ==
    /\ vaultOwner = NoOwner
    /\ balances = EmptyMap
    /\ locks = EmptyMap
    /\ nextLockId = EmptyMap
    /\ holdings = [t \in Tokens |-> [h \in Addrs \cup {Vault} |-> MintedBoth(t, h)]]
    /\ ledgerSeq = 0
    /\ last = NoCall

\* The vault with both tokens in circulation.
InitBoth == VaultInitBoth /\ RegistryInit

TwoTokenSpec == InitBoth /\ [][Next]_vars

\* The token a successful call works on: its token argument, or the token of
\* the lock it names.
CallToken ==
    IF last.op \in {"release", "reclaim"} THEN NamedBefore.token ELSE last.token

BalanceChanged(b) ==
    \/ Has(balances, b) # Has(last.pre.balances, b)
    \/ GetOr(balances, b, 0) # GetOr(last.pre.balances, b, 0)

LockChanged(k) ==
    \/ Has(locks, k) # Has(last.pre.locks, k)
    \/ (Has(locks, k) /\ Has(last.pre.locks, k) /\ locks[k] # last.pre.locks[k])

CounterChanged(o) ==
    \/ Has(nextLockId, o) # Has(last.pre.nextLockId, o)
    \/ GetOr(nextLockId, o, 0) # GetOr(last.pre.nextLockId, o, 0)

\* C26: a vault call with owner argument A changes at most the balance keyed
\* by A and the token it works on, lock entries of A and the lock id counter
\* of A; the balances, locks and counter of a release's recipient are left
\* alone; a lock changes status only in a call whose owner argument is the
\* lock's owner.  The owner query changes nothing.
C26_Isolation ==
    VaultCalled =>
      IF last.op = "owner" THEN VaultState = last.pre
      ELSE
        /\ \A b \in DOMAIN balances \cup DOMAIN last.pre.balances :
             BalanceChanged(b) =>
                /\ last.result = "Ok"
                /\ last.op \in {"deposit", "withdraw", "lock", "reclaim"}
                /\ b = <<last.owner, CallToken>>
        /\ \A k \in DOMAIN locks \cup DOMAIN last.pre.locks :
             LockChanged(k) =>
                /\ k[1] = last.owner
                /\ last.op \in {"lock", "release", "reclaim"}
        /\ \A o \in Addrs :
             CounterChanged(o) => o = last.owner /\ last.op = "lock"
        /\ (last.op = "release" /\ last.result = "Ok"
              /\ last.recipient # last.owner) =>
             /\ \A t \in Tokens :
                  ~BalanceChanged(<<last.recipient, t>>)
             /\ \A i \in LockIds : ~LockChanged(<<last.recipient, i>>)
             /\ ~CounterChanged(last.recipient)

\* A lock has succeeded for an owner who also has a balance of the other
\* token, while another owner has a balance of the same token.
C26_Witness ==
    /\ VaultCalled /\ last.op = "lock" /\ last.result = "Ok"
    /\ \E t \in Tokens \ {last.token} : Balance(last.owner, t) > 0
    /\ \E o \in Addrs \ {last.owner} : Balance(o, last.token) > 0
====
